---- MODULE Spec2Model ----
(***************************************************************************)
(* ros2action "echo" verb (ros2action/verb/echo.py).                       *)
(*                                                                         *)
(* main() validates the requested interfaces, resolves the action type,    *)
(* creates a bounded queue.Queue and a printer thread (message_handler),   *)
(* subscribes to up to five streams of the action and spins the global     *)
(* executor.  Every subscription callback formats the message and puts it  *)
(* on the queue with a 0.5 s timeout; the printer thread gets records with *)
(* a 0.5 s timeout and prints them.                                        *)
(*                                                                         *)
(* Time is not measured: a timeout is a step that is enabled for as long   *)
(* as the condition the waiter re-checks under the queue's mutex holds.    *)
(***************************************************************************)
EXTENDS Integers, Sequences, FiniteSets, TLC

\* ------------------------------------------------------------------ bounds
MaxRequested == 2      \* longest --interfaces list tried
MaxQueueSize == 2      \* largest --queue-size tried
MaxEvents == 3         \* events the middleware delivers in one run

\* --------------------------------------------------------------- constants
DefaultQueueSize == 100

\* class ActionInterfaces(Enum): the five values, in declaration order
ActionInterfaces ==
    << "GOAL_SERVICE", "CANCEL_SERVICE", "RESULT_SERVICE",
       "FEEDBACK_TOPIC", "STATUS_TOPIC" >>

Range(s) == { s[k] : k \in 1..Len(s) }

Identities == Range(ActionInterfaces)

\* str.lower() on the enum values (the only strings main lowers)
Lower(v) ==
    CASE v = "GOAL_SERVICE"   -> "goal_service"
      [] v = "CANCEL_SERVICE" -> "cancel_service"
      [] v = "RESULT_SERVICE" -> "result_service"
      [] v = "FEEDBACK_TOPIC" -> "feedback_topic"
      [] v = "STATUS_TOPIC"   -> "status_topic"
      [] OTHER                -> v

\* action_interfaces_list = [interface.value.lower() for interface in ActionInterfaces]
action_interfaces_list == [ k \in 1..Len(ActionInterfaces) |-> Lower(ActionInterfaces[k]) ]

\* names a user may type after --interfaces: the five known ones, one that is
\* no interface at all and one that differs from a known one in case only
InterfaceNames == Range(action_interfaces_list) \cup { "bogus", "GOAL_SERVICE" }

SeqsUpTo(S, n) == UNION { [1..k -> S] : k \in 0..n }

\* variant: zero passes as well
unsigned_int_ZeroAccepted(value) == value >= 0

\* ros2cli.helpers.unsigned_int, the argparse type of --queue-size: TRUE when
\* the value is accepted
unsigned_int(value) == value > 0

\* the condition of each "if not args.interfaces or X.value.lower() in args.interfaces"
Wanted(interfaces, v) == interfaces = <<>> \/ Lower(v) \in Range(interfaces)

\* variant: only the first requested name is looked at
FirstIncorrect_FirstOnly(interfaces) ==
    IF Len(interfaces) > 0 /\ interfaces[1] \notin Range(action_interfaces_list)
    THEN 1 ELSE 0

\* First name of the request that is no known interface (0: none)
FirstIncorrect(interfaces) ==
    LET bad == { k \in 1..Len(interfaces) :
                   interfaces[k] \notin Range(action_interfaces_list) }
    IN  IF bad = {} THEN 0 ELSE CHOOSE k \in bad : \A j \in bad : k <= j

\* The five subscriptions main may create, in statement order, named by the
\* local variable that holds each
Subscriptions ==
    << "send_goal_event_sub", "cancel_goal_event_sub", "get_result_event_sub",
       "feedback_sub", "status_sub" >>

SubscriptionNames == Range(Subscriptions)

\* variant: the status statement tests for the feedback member
GuardInterface_CopyPaste(k) ==
    IF k = 5 THEN ActionInterfaces[4] ELSE ActionInterfaces[k]

\* the enum member each creation statement tests for
GuardInterface(k) == ActionInterfaces[k]

\* variant: the feedback subscription is given the status callback
CallbackInterface_WrongCallback(sub) ==
    CASE sub = "send_goal_event_sub"   -> "GOAL_SERVICE"
      [] sub = "cancel_goal_event_sub" -> "CANCEL_SERVICE"
      [] sub = "get_result_event_sub"  -> "RESULT_SERVICE"
      [] sub = "feedback_sub"          -> "STATUS_TOPIC"
      [] sub = "status_sub"            -> "STATUS_TOPIC"

\* the callback registered with each subscription, by the interface value it
\* passes to _base_subscriber_callback
CallbackInterface(sub) ==
    CASE sub = "send_goal_event_sub"   -> "GOAL_SERVICE"
      [] sub = "cancel_goal_event_sub" -> "CANCEL_SERVICE"
      [] sub = "get_result_event_sub"  -> "RESULT_SERVICE"
      [] sub = "feedback_sub"          -> "FEEDBACK_TOPIC"
      [] sub = "status_sub"            -> "STATUS_TOPIC"

\* ------------------------------------------------------------ queue.Queue
NoQueue == [ created |-> FALSE, maxsize |-> 0, queue |-> <<>>, unfinished_tasks |-> 0 ]

\* queue.Queue(maxsize)
Queue(maxsize) ==
    [ created |-> TRUE, maxsize |-> maxsize, queue |-> <<>>, unfinished_tasks |-> 0 ]

qsize(q) == Len(q.queue)

\* variant: one record too many is let in
full_OffByOne(q) == q.maxsize > 0 /\ qsize(q) > q.maxsize

\* Queue.put waits while "maxsize > 0 and qsize >= maxsize"
full(q) == q.maxsize > 0 /\ qsize(q) >= q.maxsize

\* variant: the record goes to the front
put_Front(q, item) ==
    [ q EXCEPT !.queue = << item >> \o @, !.unfinished_tasks = @ + 1 ]

\* Queue.put once there is room: append and count the unfinished task
put(q, item) ==
    [ q EXCEPT !.queue = Append(@, item), !.unfinished_tasks = @ + 1 ]

\* Queue.get once an item is there: the item returned
get_item(q) == Head(q.queue)

\* Queue.get once an item is there, followed by Queue.task_done: the queue left
get_task_done(q) ==
    [ q EXCEPT !.queue = Tail(@), !.unfinished_tasks = @ - 1 ]

\* ------------------------------------------------------------- the records
\* to_print = 'interface: ' + interface + '\n' + <rendered msg> [+ '---']
ToPrint(interface, msg) == [ interface |-> interface, msg |-> msg ]

NoRecord == [ interface |-> "", msg |-> 0 ]

QueueFullWarning == [ by |-> "callback", kind |-> "warning", rec |-> NoRecord ]

PrintedRecord(r) == [ by |-> "printer", kind |-> "record", rec |-> r ]

VARIABLES
    cmdline,          \* what the user typed: --interfaces and --queue-size
    args,             \* the parsed arguments main receives
    mpc,              \* where the main thread is
    failure,          \* how main ended early: kind and the name it reports
    action_module,    \* "unset" | "module" | "None"
    resolutions,      \* calls of get_action_class / get_action so far
    output_msg_queue, \* self.output_msg_queue
    run_thread,       \* the flag message_handler loops on
    tpc,              \* where the printer thread is
    message,          \* the printer's local "message"
    subs,             \* per subscription: "none" | "active" | "destroyed"
    created,          \* per subscription: create_subscription calls made
    idx,              \* position in the five create_subscription statements
    context_ok,       \* executor.context.ok()
    in_executor,      \* the node is added to the executor
    cur,              \* the running callback's subscription, msg and to_print
    arrived,          \* history: events whose callback was invoked
    attempts,         \* history: calls of output_msg_queue.put
    pushed,           \* history: records whose put succeeded
    dropped,          \* history: records whose put raised queue.Full
    quiet_puts,       \* history: puts that ended before the printer took anything
    stdout            \* what has been printed, in order

vars ==
    << cmdline, args, mpc, failure, action_module, resolutions, output_msg_queue,
       run_thread, tpc, message, subs, created, idx, context_ok, in_executor,
       cur, arrived, attempts, pushed, dropped, quiet_puts, stdout >>

mainVars == << args, mpc, failure, action_module, resolutions, idx >>
subVars == << subs, created, in_executor >>
cbVars == << cur, arrived, attempts, pushed, dropped, quiet_puts >>
printerVars == << tpc, message >>

NoArgs == [ interfaces |-> <<>>, queue_size |-> 0 ]
NoFailure == [ kind |-> "none", name |-> "" ]
NoCur == [ sub |-> "", msg |-> 0, to_print |-> NoRecord ]

\* --queue-size left out, or given as one of a few integers
QueueSizeArgs == { <<>> } \cup { << n >> : n \in -1..MaxQueueSize }

\* the --interfaces lists tried with events flowing: none (all five streams),
\* one topic, a service and a topic, and a name that is no interface
Requests ==
    { <<>>, << "feedback_topic" >>, << "goal_service", "status_topic" >>, << "bogus" >> }

CmdLines == [ interfaces : Requests, queue_size : QueueSizeArgs ]

\* every --interfaces list up to MaxRequested names
ArgCmdLines ==
    [ interfaces : SeqsUpTo(InterfaceNames, MaxRequested), queue_size : QueueSizeArgs ]

InitWith(cmdlines) ==
    /\ cmdline \in cmdlines
    /\ args = NoArgs
    /\ mpc = "parse"
    /\ failure = NoFailure
    /\ action_module = "unset"
    /\ resolutions = 0
    /\ output_msg_queue = NoQueue
    /\ run_thread = FALSE
    /\ tpc = "unstarted"
    /\ message = NoRecord
    /\ subs = [ s \in SubscriptionNames |-> "none" ]
    /\ created = [ s \in SubscriptionNames |-> 0 ]
    /\ idx = 0
    /\ context_ok = TRUE
    /\ in_executor = FALSE
    /\ cur = NoCur
    /\ arrived = <<>>
    /\ attempts = 0
    /\ pushed = <<>>
    /\ dropped = <<>>
    /\ quiet_puts = 0
    /\ stdout = <<>>

Init == InitWith(CmdLines)

InitArgs == InitWith(ArgCmdLines)

\* ------------------------------------------------------------ main thread
\* argparse applies type=unsigned_int to a given --queue-size and uses the
\* default otherwise; a rejected value ends the program before main runs
ParseArguments ==
    /\ mpc = "parse"
    /\ IF cmdline.queue_size = <<>>
       THEN /\ args' = [ interfaces |-> cmdline.interfaces,
                         queue_size |-> DefaultQueueSize ]
            /\ mpc' = "validate"
            /\ UNCHANGED failure
       ELSE IF unsigned_int(cmdline.queue_size[1])
       THEN /\ args' = [ interfaces |-> cmdline.interfaces,
                         queue_size |-> cmdline.queue_size[1] ]
            /\ mpc' = "validate"
            /\ UNCHANGED failure
       ELSE /\ failure' = [ kind |-> "ArgumentTypeError", name |-> "--queue-size" ]
            /\ mpc' = "exited"
            /\ UNCHANGED args
    /\ UNCHANGED << cmdline, action_module, resolutions, output_msg_queue, run_thread,
                    idx, context_ok, stdout >>
    /\ UNCHANGED << subVars, cbVars, printerVars >>

\* main, the loop over args.interfaces: return the message naming the first
\* name that is not in action_interfaces_list
ValidateInterfaces ==
    /\ mpc = "validate"
    /\ LET k == FirstIncorrect(args.interfaces)
       IN  IF k = 0
           THEN /\ mpc' = "resolve"
                /\ UNCHANGED failure
           ELSE /\ mpc' = "returned"
                /\ failure' = [ kind |-> "incorrect interface name",
                                name |-> args.interfaces[k] ]
    /\ UNCHANGED << cmdline, args, action_module, resolutions, output_msg_queue,
                    run_thread, idx, context_ok, stdout >>
    /\ UNCHANGED << subVars, cbVars, printerVars >>

\* main, the type resolution: get_action_class on a temporary node when no
\* action_type was given, get_action otherwise.  The lookup is the
\* environment's: it returns a module, returns None, or raises
ResolveOutcomes == { "module", "None", "raises" }

ActionTypeArgs == { "None", "given" }

\* variant: the "if action_module is None" test is missing
ResolveType_NoneUnchecked ==
    /\ mpc = "resolve"
    /\ resolutions' = resolutions + 1
    /\ \E action_type \in ActionTypeArgs, outcome \in ResolveOutcomes :
         CASE outcome = "module" ->
                /\ action_module' = "module"
                /\ mpc' = "make_queue"
                /\ UNCHANGED failure
           [] outcome = "None" ->
                /\ action_module' = "None"
                /\ mpc' = "make_queue"
                /\ UNCHANGED failure
           [] outcome = "raises" ->
                /\ mpc' = "raised"
                /\ failure' = [ kind |-> "RuntimeError",
                                name |-> IF action_type = "None"
                                         THEN "action name is invalid"
                                         ELSE "service type is invalid" ]
                /\ UNCHANGED action_module
    /\ UNCHANGED << cmdline, args, output_msg_queue, run_thread, idx,
                    context_ok, stdout >>
    /\ UNCHANGED << subVars, cbVars, printerVars >>

\* main, "if args.action_type is None: ... else: ..." and
\* "if action_module is None: raise"
ResolveType ==
    /\ mpc = "resolve"
    /\ resolutions' = resolutions + 1
    /\ \E action_type \in ActionTypeArgs, outcome \in ResolveOutcomes :
         CASE outcome = "module" ->
                /\ action_module' = "module"
                /\ mpc' = "make_queue"
                /\ UNCHANGED failure
           [] outcome = "None" ->
                /\ action_module' = "None"
                /\ mpc' = "raised"
                /\ failure' = [ kind |-> "RuntimeError",
                                name |-> "Could not load the type" ]
           [] outcome = "raises" ->
                /\ mpc' = "raised"
                /\ failure' = [ kind |-> "RuntimeError",
                                name |-> IF action_type = "None"
                                         THEN "action name is invalid"
                                         ELSE "service type is invalid" ]
                /\ UNCHANGED action_module
    /\ UNCHANGED << cmdline, args, output_msg_queue, run_thread, idx,
                    context_ok, stdout >>
    /\ UNCHANGED << subVars, cbVars, printerVars >>

\* self.output_msg_queue = queue.Queue(args.queue_size)
MakeQueue ==
    /\ mpc = "make_queue"
    /\ output_msg_queue' = Queue(args.queue_size)
    /\ mpc' = "start_thread"
    /\ UNCHANGED << cmdline, args, failure, action_module, resolutions, run_thread,
                    idx, context_ok, stdout >>
    /\ UNCHANGED << subVars, cbVars, printerVars >>

\* run_thread = True; output_msg_thread.start()
StartThread ==
    /\ mpc = "start_thread"
    /\ run_thread' = TRUE
    /\ tpc' = "loop"
    /\ mpc' = "create"
    /\ idx' = 1
    /\ UNCHANGED << cmdline, args, failure, action_module, resolutions,
                    output_msg_queue, message, context_ok, stdout >>
    /\ UNCHANGED << subVars, cbVars >>

\* one of the five "if not args.interfaces or ... in args.interfaces:
\* X_sub = node.create_subscription(...)" statements; create_subscription
\* may raise, which leaves main at once
CreateSubscription ==
    /\ mpc = "create"
    /\ idx \in 1..Len(Subscriptions)
    /\ LET sub == Subscriptions[idx]
       IN  IF Wanted(args.interfaces, GuardInterface(idx))
           THEN \/ /\ subs' = [ subs EXCEPT ![sub] = "active" ]
                   /\ created' = [ created EXCEPT ![sub] = @ + 1 ]
                   /\ idx' = idx + 1
                   /\ mpc' = IF idx = Len(Subscriptions) THEN "add_node" ELSE "create"
                   /\ UNCHANGED failure
                \/ /\ mpc' = "raised"
                   /\ failure' = [ kind |-> "create_subscription", name |-> sub ]
                   /\ UNCHANGED << subs, created, idx >>
           ELSE /\ idx' = idx + 1
                /\ mpc' = IF idx = Len(Subscriptions) THEN "add_node" ELSE "create"
                /\ UNCHANGED << subs, created, failure >>
    /\ UNCHANGED << cmdline, args, action_module, resolutions, output_msg_queue,
                    run_thread, context_ok, in_executor, stdout >>
    /\ UNCHANGED << cbVars, printerVars >>

\* executor.add_node(node)
AddNode ==
    /\ mpc = "add_node"
    /\ in_executor' = TRUE
    /\ mpc' = "check_context"
    /\ UNCHANGED << cmdline, args, failure, action_module, resolutions, idx,
                    output_msg_queue, run_thread, context_ok, stdout, subs, created >>
    /\ UNCHANGED << cbVars, printerVars >>

\* while executor.context.ok():
CheckContext ==
    /\ mpc = "check_context"
    /\ mpc' = IF context_ok THEN "spin_once" ELSE "finally"
    /\ UNCHANGED << cmdline, args, failure, action_module, resolutions, idx,
                    output_msg_queue, run_thread, context_ok, stdout >>
    /\ UNCHANGED << subVars, cbVars, printerVars >>

Spinning == mpc \in { "check_context", "spin_once", "cb_format", "cb_put", "cb_warn" }

\* the middleware context is shut down from outside.  Only the loop test
\* reads it, so the shutdown is taken when main is about to test
ContextShutdown ==
    /\ mpc = "check_context"
    /\ context_ok
    /\ context_ok' = FALSE
    /\ UNCHANGED << cmdline, mainVars, output_msg_queue, run_thread, stdout >>
    /\ UNCHANGED << subVars, cbVars, printerVars >>

\* executor.spin_once() returns without having run a callback
SpinOnceIdle ==
    /\ mpc = "spin_once"
    /\ mpc' = "check_context"
    /\ UNCHANGED << cmdline, args, failure, action_module, resolutions, idx,
                    output_msg_queue, run_thread, context_ok, stdout >>
    /\ UNCHANGED << subVars, cbVars, printerVars >>

\* variant: the executor still runs a callback while the node is removed
Deliver_WhileRemoving ==
    /\ mpc \in { "spin_once", "finally" }
    /\ in_executor
    /\ Len(arrived) < MaxEvents
    /\ \E sub \in SubscriptionNames :
         /\ subs[sub] = "active"
         /\ cur' = [ sub |-> sub, msg |-> Len(arrived) + 1, to_print |-> NoRecord ]
         /\ arrived' = Append(arrived, [ sub |-> sub, msg |-> Len(arrived) + 1 ])
    /\ mpc' = "cb_format"
    /\ UNCHANGED << cmdline, args, failure, action_module, resolutions, idx,
                    output_msg_queue, run_thread, context_ok, stdout,
                    attempts, pushed, dropped, quiet_puts >>
    /\ UNCHANGED << subVars, printerVars >>

\* executor.spin_once() takes an event of an active subscription of the node
\* and invokes the callback registered with it
Deliver ==
    /\ mpc = "spin_once"
    /\ in_executor
    /\ Len(arrived) < MaxEvents
    /\ \E sub \in SubscriptionNames :
         /\ subs[sub] = "active"
         /\ cur' = [ sub |-> sub, msg |-> Len(arrived) + 1, to_print |-> NoRecord ]
         /\ arrived' = Append(arrived, [ sub |-> sub, msg |-> Len(arrived) + 1 ])
    /\ mpc' = "cb_format"
    /\ UNCHANGED << cmdline, args, failure, action_module, resolutions, idx,
                    output_msg_queue, run_thread, context_ok, stdout,
                    attempts, pushed, dropped, quiet_puts >>
    /\ UNCHANGED << subVars, printerVars >>

\* _X_subscriber_callback -> _base_subscriber_callback: build to_print and
\* call self.output_msg_queue.put(to_print, timeout=0.5)
FormatAndCallPut ==
    /\ mpc = "cb_format"
    /\ cur' = [ cur EXCEPT !.to_print = ToPrint(CallbackInterface(cur.sub), cur.msg) ]
    /\ attempts' = attempts + 1
    /\ mpc' = "cb_put"
    /\ UNCHANGED << cmdline, args, failure, action_module, resolutions, idx,
                    output_msg_queue, run_thread, context_ok, stdout,
                    arrived, pushed, dropped, quiet_puts >>
    /\ UNCHANGED << subVars, printerVars >>

Taken == Len(pushed) - qsize(output_msg_queue)

\* put finds room (at once, or after waiting for the printer): the record is
\* appended and the callback returns
PutOk ==
    /\ mpc = "cb_put"
    /\ ~ full(output_msg_queue)
    /\ output_msg_queue' = put(output_msg_queue, cur.to_print)
    /\ pushed' = Append(pushed, cur.to_print)
    /\ quiet_puts' = IF Taken = 0 THEN quiet_puts + 1 ELSE quiet_puts
    /\ cur' = NoCur
    /\ mpc' = "check_context"
    /\ UNCHANGED << cmdline, args, failure, action_module, resolutions, idx,
                    run_thread, context_ok, stdout, arrived, attempts, dropped >>
    /\ UNCHANGED << subVars, printerVars >>

\* variant: a full queue gives up its oldest record for the new one
PutFull_DropOldest ==
    /\ mpc = "cb_put"
    /\ full(output_msg_queue)
    /\ output_msg_queue' =
         put([ output_msg_queue EXCEPT !.queue = Tail(@) ], cur.to_print)
    /\ pushed' = Append(pushed, cur.to_print)
    /\ quiet_puts' = IF Taken = 0 THEN quiet_puts + 1 ELSE quiet_puts
    /\ cur' = NoCur
    /\ mpc' = "check_context"
    /\ UNCHANGED << cmdline, args, failure, action_module, resolutions, idx,
                    run_thread, context_ok, stdout, arrived, attempts, dropped >>
    /\ UNCHANGED << subVars, printerVars >>

\* variant: put is called without a timeout and never raises queue.Full
PutFull_NoTimeout ==
    /\ mpc = "cb_put"
    /\ full(output_msg_queue)
    /\ FALSE
    /\ dropped' = Append(dropped, cur.to_print)
    /\ quiet_puts' = IF Taken = 0 THEN quiet_puts + 1 ELSE quiet_puts
    /\ mpc' = "cb_warn"
    /\ UNCHANGED << cmdline, args, failure, action_module, resolutions, idx,
                    output_msg_queue, run_thread, context_ok, stdout,
                    cur, arrived, attempts, pushed >>
    /\ UNCHANGED << subVars, printerVars >>

\* the 0.5 s of put elapse with the queue still full: queue.Full is raised
\* and caught by the callback
PutFull ==
    /\ mpc = "cb_put"
    /\ full(output_msg_queue)
    /\ dropped' = Append(dropped, cur.to_print)
    /\ quiet_puts' = IF Taken = 0 THEN quiet_puts + 1 ELSE quiet_puts
    /\ mpc' = "cb_warn"
    /\ UNCHANGED << cmdline, args, failure, action_module, resolutions, idx,
                    output_msg_queue, run_thread, context_ok, stdout,
                    cur, arrived, attempts, pushed >>
    /\ UNCHANGED << subVars, printerVars >>

\* variant: queue.Full is swallowed without a word
PrintWarning_Silent ==
    /\ mpc = "cb_warn"
    /\ UNCHANGED stdout
    /\ cur' = NoCur
    /\ mpc' = "check_context"
    /\ UNCHANGED << cmdline, args, failure, action_module, resolutions, idx,
                    output_msg_queue, run_thread, context_ok,
                    arrived, attempts, pushed, dropped, quiet_puts >>
    /\ UNCHANGED << subVars, printerVars >>

\* except queue.Full: print('Output message is full! ...')
PrintWarning ==
    /\ mpc = "cb_warn"
    /\ stdout' = Append(stdout, QueueFullWarning)
    /\ cur' = NoCur
    /\ mpc' = "check_context"
    /\ UNCHANGED << cmdline, args, failure, action_module, resolutions, idx,
                    output_msg_queue, run_thread, context_ok,
                    arrived, attempts, pushed, dropped, quiet_puts >>
    /\ UNCHANGED << subVars, printerVars >>

\* KeyboardInterrupt reaches the main thread inside the try block (while it
\* tests the context, waits in spin_once or runs a callback): except ... pass
Interrupt ==
    /\ Spinning
    /\ cur' = NoCur
    /\ mpc' = "finally"
    /\ UNCHANGED << cmdline, args, failure, action_module, resolutions, idx,
                    output_msg_queue, run_thread, context_ok, stdout,
                    arrived, attempts, pushed, dropped, quiet_puts >>
    /\ UNCHANGED << subVars, printerVars >>

\* spin_once, or the formatting part of a callback, raises something that is
\* no KeyboardInterrupt: the finally clause removes the node and the
\* exception leaves main
SpinRaises ==
    /\ mpc \in { "spin_once", "cb_format" }
    /\ cur' = NoCur
    /\ in_executor' = FALSE
    /\ mpc' = "raised"
    /\ failure' = [ kind |-> "spin", name |-> "" ]
    /\ UNCHANGED << cmdline, args, action_module, resolutions, idx,
                    output_msg_queue, run_thread, context_ok, stdout, subs, created,
                    arrived, attempts, pushed, dropped, quiet_puts >>
    /\ UNCHANGED printerVars

\* variant: status_sub.destroy() is forgotten
RemoveNodeAndDestroy_StatusKept ==
    /\ mpc = "finally"
    /\ in_executor' = FALSE
    /\ subs' = [ sub \in SubscriptionNames |->
                   IF subs[sub] = "active" /\ sub # "status_sub"
                   THEN "destroyed" ELSE subs[sub] ]
    /\ mpc' = "stop"
    /\ UNCHANGED << cmdline, args, failure, action_module, resolutions, idx,
                    output_msg_queue, run_thread, context_ok, stdout, created >>
    /\ UNCHANGED << cbVars, printerVars >>

\* finally: executor.remove_node(node), then the five
\* "if X_sub: X_sub.destroy()" statements
RemoveNodeAndDestroy ==
    /\ mpc = "finally"
    /\ in_executor' = FALSE
    /\ subs' = [ sub \in SubscriptionNames |->
                   IF subs[sub] = "active" THEN "destroyed" ELSE subs[sub] ]
    /\ mpc' = "stop"
    /\ UNCHANGED << cmdline, args, failure, action_module, resolutions, idx,
                    output_msg_queue, run_thread, context_ok, stdout, created >>
    /\ UNCHANGED << cbVars, printerVars >>

\* variant: the assignment binds a local name and the flag stays set
StopThread_FlagKept ==
    /\ mpc = "stop"
    /\ run_thread' = run_thread
    /\ mpc' = IF tpc # "exited" THEN "join" ELSE "done"
    /\ UNCHANGED << cmdline, args, failure, action_module, resolutions, idx,
                    output_msg_queue, context_ok, stdout >>
    /\ UNCHANGED << subVars, cbVars, printerVars >>

\* run_thread = False; if output_msg_thread.is_alive(): [join]
StopThread ==
    /\ mpc = "stop"
    /\ run_thread' = FALSE
    /\ mpc' = IF tpc # "exited" THEN "join" ELSE "done"
    /\ UNCHANGED << cmdline, args, failure, action_module, resolutions, idx,
                    output_msg_queue, context_ok, stdout >>
    /\ UNCHANGED << subVars, cbVars, printerVars >>

\* output_msg_thread.join(1) returns: the thread has ended, or 1 s elapsed
\* with the thread still alive
Join ==
    /\ mpc = "join"
    /\ mpc' = "done"
    /\ UNCHANGED << cmdline, args, failure, action_module, resolutions, idx,
                    output_msg_queue, run_thread, context_ok, stdout >>
    /\ UNCHANGED << subVars, cbVars, printerVars >>

\* variant: the loop goes on while records are queued
LoopTest_Drain ==
    /\ tpc = "loop"
    /\ tpc' = IF run_thread \/ qsize(output_msg_queue) > 0
            THEN "get" ELSE "exited"
    /\ UNCHANGED << cmdline, mainVars, output_msg_queue, run_thread, context_ok,
                    stdout, message >>
    /\ UNCHANGED << subVars, cbVars >>

\* --------------------------------------------- printer thread (message_handler)
\* while run_thread:
LoopTest ==
    /\ tpc = "loop"
    /\ tpc' = IF run_thread THEN "get" ELSE "exited"
    /\ UNCHANGED << cmdline, mainVars, output_msg_queue, run_thread, context_ok,
                    stdout, message >>
    /\ UNCHANGED << subVars, cbVars >>

\* message = self.output_msg_queue.get(block=True, timeout=0.5); task_done()
Get ==
    /\ tpc = "get"
    /\ qsize(output_msg_queue) > 0
    /\ message' = get_item(output_msg_queue)
    /\ output_msg_queue' = get_task_done(output_msg_queue)
    /\ tpc' = "print"
    /\ UNCHANGED << cmdline, mainVars, run_thread, context_ok, stdout >>
    /\ UNCHANGED << subVars, cbVars >>

\* variant: "break" where the handler says "continue"
GetEmpty_Break ==
    /\ tpc = "get"
    /\ qsize(output_msg_queue) = 0
    /\ tpc' = "exited"
    /\ UNCHANGED << cmdline, mainVars, output_msg_queue, run_thread, context_ok,
                    stdout, message >>
    /\ UNCHANGED << subVars, cbVars >>

\* the 0.5 s of get elapse with the queue still empty: except queue.Empty: continue
GetEmpty ==
    /\ tpc = "get"
    /\ qsize(output_msg_queue) = 0
    /\ tpc' = "loop"
    /\ UNCHANGED << cmdline, mainVars, output_msg_queue, run_thread, context_ok,
                    stdout, message >>
    /\ UNCHANGED << subVars, cbVars >>

\* variant: the record taken is not printed
PrintMessage_Lost ==
    /\ tpc = "print"
    /\ stdout' = stdout
    /\ tpc' = "loop"
    /\ UNCHANGED << cmdline, mainVars, output_msg_queue, run_thread, context_ok,
                    message >>
    /\ UNCHANGED << subVars, cbVars >>

\* print(message)
PrintMessage ==
    /\ tpc = "print"
    /\ stdout' = Append(stdout, PrintedRecord(message))
    /\ tpc' = "loop"
    /\ UNCHANGED << cmdline, mainVars, output_msg_queue, run_thread, context_ok,
                    message >>
    /\ UNCHANGED << subVars, cbVars >>

Next ==
    \/ ParseArguments
    \/ ValidateInterfaces
    \/ ResolveType
    \/ MakeQueue
    \/ StartThread
    \/ CreateSubscription
    \/ AddNode
    \/ CheckContext
    \/ ContextShutdown
    \/ SpinOnceIdle
    \/ Deliver
    \/ FormatAndCallPut
    \/ PutOk
    \/ PutFull
    \/ PrintWarning
    \/ Interrupt
    \/ SpinRaises
    \/ RemoveNodeAndDestroy
    \/ StopThread
    \/ Join
    \/ LoopTest
    \/ Get
    \/ GetEmpty
    \/ PrintMessage

Spec == Init /\ [][Next]_vars

\* Start-up and shutdown over every argument list, with a middleware that
\* delivers no event
NextArgs ==
    \/ ParseArguments
    \/ ValidateInterfaces
    \/ ResolveType
    \/ MakeQueue
    \/ StartThread
    \/ CreateSubscription
    \/ AddNode
    \/ CheckContext
    \/ ContextShutdown
    \/ SpinOnceIdle
    \/ Interrupt
    \/ SpinRaises
    \/ RemoveNodeAndDestroy
    \/ StopThread
    \/ Join
    \/ LoopTest
    \/ GetEmpty

SpecArgs == InitArgs /\ [][NextArgs]_vars

\* all five streams echoed (no --interfaces), with the default queue and
\* with a queue of one record
StreamCmdLines == [ interfaces : { <<>> }, queue_size : { <<>>, << 1 >> } ]

InitStreams == InitWith(StreamCmdLines)

SpecStreams == InitStreams /\ [][Next]_vars

\* the argument lists used where progress is checked: a service and a topic
\* requested, every --queue-size
LiveCmdLines ==
    [ interfaces : { << "goal_service", "status_topic" >> }, queue_size : QueueSizeArgs ]

InitLive == InitWith(LiveCmdLines)

\* main is a running thread: each statement it reaches is executed, and its
\* timed waits (put with timeout=0.5, join(1)) end. spin_once() waiting for
\* an event, the arrival of events, the interrupt and the shutdown of the
\* context are the environment's and are not forced.
MainProgress ==
    \/ ParseArguments
    \/ ValidateInterfaces
    \/ ResolveType
    \/ MakeQueue
    \/ StartThread
    \/ CreateSubscription
    \/ AddNode
    \/ CheckContext
    \/ FormatAndCallPut
    \/ PutOk
    \/ PutFull
    \/ PrintWarning
    \/ RemoveNodeAndDestroy
    \/ StopThread
    \/ Join

\* the printer thread, once started, is scheduled: the loop test, the get
\* with timeout=0.5 (which returns or raises queue.Empty) and print are
\* executed
PrinterProgress ==
    \/ LoopTest
    \/ Get
    \/ GetEmpty
    \/ PrintMessage

\* main is scheduled, the printer thread may never be
MainFairSpec == InitLive /\ [][Next]_vars /\ WF_vars(MainProgress)

\* both threads are scheduled
LiveSpec ==
    InitLive /\ [][Next]_vars /\ WF_vars(MainProgress) /\ WF_vars(PrinterProgress)

\* ------------------------------------------------------------- properties
IsPrefix(a, b) == Len(a) <= Len(b) /\ \A k \in 1..Len(a) : a[k] = b[k]

PrinterLines == SelectSeq(stdout, LAMBDA line : line.by = "printer")

\* the records the printer thread has written, in the order written
Printed == [ k \in 1..Len(PrinterLines) |-> PrinterLines[k].rec ]

\* the queue-full warnings written so far
Warnings == Len(SelectSeq(stdout, LAMBDA line : line.kind = "warning"))

\* the stream an identity label belongs to, as the user names it
RequestName(sub) ==
    CASE sub = "send_goal_event_sub"   -> "goal_service"
      [] sub = "cancel_goal_event_sub" -> "cancel_service"
      [] sub = "get_result_event_sub"  -> "result_service"
      [] sub = "feedback_sub"          -> "feedback_topic"
      [] sub = "status_sub"            -> "status_topic"

KnownNames ==
    { "goal_service", "cancel_service", "result_service", "feedback_topic",
      "status_topic" }

\* the record the callback makes of the k-th event delivered
RecordOf(k) == ToPrint(CallbackInterface(arrived[k].sub), arrived[k].msg)

NoDuplicates(seq) == \A i, j \in 1..Len(seq) : seq[i] = seq[j] => i = j

NothingStarted ==
    /\ ~ output_msg_queue.created
    /\ tpc = "unstarted"
    /\ \A sub \in SubscriptionNames : created[sub] = 0 /\ subs[sub] = "none"

\* C1: at every moment the records the printer has written are a prefix of
\* the records whose put succeeded, in put order: none written twice, none
\* written that was not put, none overtaking an earlier one.
C1_PrintedIsPrefixOfPushed ==
    /\ IsPrefix(Printed, pushed)
    /\ NoDuplicates(Printed)

\* two records of different streams were put and written, a third waits
C1_Witness ==
    /\ Len(Printed) >= 2
    /\ Printed[1].interface # Printed[2].interface
    /\ Len(pushed) > Len(Printed)

\* C2: for every queue size the program accepts, the queue never holds more
\* records than that size.
C2_QueueNeverExceedsSize ==
    output_msg_queue.created =>
        /\ cmdline.queue_size = <<>> => output_msg_queue.maxsize = DefaultQueueSize
        /\ cmdline.queue_size # <<>> => output_msg_queue.maxsize = cmdline.queue_size[1]
        /\ qsize(output_msg_queue) <= output_msg_queue.maxsize

\* a callback waits in put on a queue of two that holds two records
C2_Witness ==
    /\ mpc = "cb_put"
    /\ cmdline.queue_size = << 2 >>
    /\ qsize(output_msg_queue) = 2

\* the first capacity+1 puts all ended before the printer took anything
Burst ==
    /\ output_msg_queue.created
    /\ quiet_puts >= output_msg_queue.maxsize + 1

\* C3: when capacity+1 events arrive while the printer takes nothing, the
\* first capacity puts succeed and the last ends in queue.Full; afterwards
\* the first capacity records are what the printer delivers first, in
\* arrival order, and the rejected record is never delivered.
C3_BurstDropsOnlyTheLast ==
    Burst =>
        LET cap == output_msg_queue.maxsize
        IN  /\ Len(pushed) >= cap
            /\ \A k \in 1..cap : pushed[k] = RecordOf(k)
            /\ Len(dropped) >= 1
            /\ dropped[1] = RecordOf(cap + 1)
            /\ \A k \in 1..Len(Printed) :
                 /\ k <= cap => Printed[k] = RecordOf(k)
                 /\ Printed[k] # RecordOf(cap + 1)
            /\ message # RecordOf(cap + 1)
            /\ \A k \in 1..qsize(output_msg_queue) :
                 output_msg_queue.queue[k] # RecordOf(cap + 1)

\* queue size 2, three events in a burst, and the first two are printed
C3_Witness ==
    /\ Burst
    /\ output_msg_queue.maxsize = 2
    /\ Len(arrived) = 3
    /\ Printed = << RecordOf(1), RecordOf(2) >>

Running == mpc \in { "check_context", "spin_once" }

\* C4: a put that ends in queue.Full drops exactly that record, leaves the
\* queue as it was and leads to exactly one warning, and the callback
\* returns to the loop; between callbacks every event received so far has
\* either been enqueued or been reported by a warning.
C4_FullIsLocalAndReported ==
    [][ /\ dropped' # dropped =>
             /\ mpc = "cb_put"
             /\ dropped' = Append(dropped, cur.to_print)
             /\ output_msg_queue' = output_msg_queue
             /\ pushed' = pushed
             /\ stdout' = stdout
             /\ mpc' = "cb_warn"
        /\ (mpc = "cb_warn" /\ mpc' \in { "check_context", "spin_once" }) =>
             /\ stdout' = Append(stdout, QueueFullWarning)
             /\ output_msg_queue' = output_msg_queue
        /\ Running' =>
             /\ Len(arrived') = Len(pushed') + Len(dropped')
             /\ Warnings' = Len(dropped')
             /\ \A k \in 1..Len(dropped') :
                  \A j \in 1..Len(pushed') : dropped'[k] # pushed'[j]
      ]_vars

\* after a dropped record and its warning, a later event was enqueued
C4_Witness ==
    /\ Running
    /\ Len(dropped) = 1
    /\ Warnings = 1
    /\ Len(pushed) >= 1
    /\ pushed[Len(pushed)].msg > dropped[1].msg

IncorrectNames == { cmdline.interfaces[k] : k \in 1..Len(cmdline.interfaces) } \ KnownNames

\* C5: if a requested interface name is not one of the five known ones, main
\* returns an error naming an offending name, before the type is resolved,
\* before the queue and the printer thread exist and before any subscription.
C5_IncorrectInterfaceStopsMain ==
    /\ (IncorrectNames # {} /\ mpc \notin { "parse", "validate", "exited" }) =>
          /\ mpc = "returned"
          /\ failure.kind = "incorrect interface name"
          /\ failure.name \in IncorrectNames
          /\ resolutions = 0
          /\ NothingStarted
    /\ failure.kind = "incorrect interface name" => IncorrectNames # {}

\* a known name followed by one that differs from it in case only
C5_Witness ==
    /\ mpc = "returned"
    /\ cmdline.interfaces = << "goal_service", "GOAL_SERVICE" >>
    /\ failure.name = "GOAL_SERVICE"

\* C6: a failed resolution of the action name or type ends main with an
\* error while the printer thread is not started, the queue is not made and
\* no subscription exists.
C6_ResolutionFailureBeforeConcurrency ==
    /\ (resolutions > 0 /\ action_module # "module") =>
          /\ mpc = "raised"
          /\ failure.kind = "RuntimeError"
          /\ NothingStarted
    /\ failure.kind = "RuntimeError" => NothingStarted /\ mpc = "raised"

\* the lookup returned None
C6_Witness ==
    /\ mpc = "raised"
    /\ action_module = "None"
    /\ failure.name = "Could not load the type"

NonPositiveQueueSize == cmdline.queue_size # <<>> /\ cmdline.queue_size[1] <= 0

\* C7: a queue size of zero or less is rejected at once: no queue of that
\* size is made and no subscription is created.
C7_NonPositiveQueueSizeRejected ==
    (NonPositiveQueueSize /\ mpc # "parse") =>
        /\ mpc = "exited"
        /\ failure.kind = "ArgumentTypeError"
        /\ resolutions = 0
        /\ NothingStarted

\* --queue-size 0 was given and turned down
C7_Witness ==
    /\ mpc = "exited"
    /\ cmdline.queue_size = << 0 >>

Requested(sub) ==
    \/ cmdline.interfaces = <<>>
    \/ \E k \in 1..Len(cmdline.interfaces) : cmdline.interfaces[k] = RequestName(sub)

\* C8: for a valid request, once the creation statements are through, the
\* streams subscribed to are the requested ones, or all five when none is
\* requested; no stream is subscribed to twice, repeated names or not, and
\* none that was not requested.
C8_SubscribedIsRequested ==
    /\ \A sub \in SubscriptionNames : created[sub] <= 1
    /\ \A sub \in SubscriptionNames : created[sub] = 1 => Requested(sub)
    /\ mpc \in { "add_node", "check_context", "spin_once" } =>
          \A sub \in SubscriptionNames :
              /\ Requested(sub) => created[sub] = 1 /\ subs[sub] = "active"
              /\ ~ Requested(sub) => created[sub] = 0 /\ subs[sub] = "none"

\* the same name twice: one subscription
C8_Witness ==
    /\ mpc = "spin_once"
    /\ cmdline.interfaces = << "status_topic", "status_topic" >>
    /\ created["status_sub"] = 1
    /\ subs["status_sub"] = "active"

\* C9 as stated: the printer ends only with the stop flag set and the queue
\* empty, so it never leaves a queued record behind.
C9_ExitsOnlyOnEmptyQueue ==
    tpc = "exited" => (~ run_thread /\ qsize(output_msg_queue) = 0)

\* C9: the printer ends only when the stop flag is set (it tests the flag at
\* the top of its loop and leaves there, records in the queue or not); it
\* never ends while the flag is unset.
C9_ExitsOnlyWhenStopped ==
    [][ (tpc # "exited" /\ tpc' = "exited") => (tpc = "loop" /\ ~ run_thread) ]_vars

\* the printer has ended and a record is still queued
C9_Witness ==
    /\ tpc = "exited"
    /\ qsize(output_msg_queue) > 0

Draining == mpc \in { "finally", "stop", "join", "done" }

\* C10: once main has left the loop on an interrupt or a dead context, no
\* callback runs and nothing is put on the queue any more, the number of put
\* calls stays as it is, and the subscriptions are all destroyed before the
\* stop flag is set.
C10_NoPushOnceDraining ==
    [][ /\ Draining =>
             /\ Draining'
             /\ arrived' = arrived
             /\ attempts' = attempts
             /\ pushed' = pushed
             /\ dropped' = dropped
             /\ qsize(output_msg_queue') <= qsize(output_msg_queue)
        /\ mpc' \in { "stop", "join", "done" } =>
             /\ ~ in_executor'
             /\ \A sub \in SubscriptionNames : subs'[sub] # "active"
      ]_vars

\* main is through after an interrupt that cut a callback short
C10_Witness ==
    /\ mpc = "done"
    /\ Len(arrived) > Len(pushed) + Len(dropped)
    /\ Len(pushed) >= 1
    /\ \E sub \in SubscriptionNames : subs[sub] = "destroyed"

\* C12 as stated: a callback writes nothing to the output, on the queue.Full
\* path either, so every line of the output is the printer thread's.
C12_OnlyThePrinterWrites ==
    \A k \in 1..Len(stdout) : stdout[k].by = "printer"

\* C13: whenever a subscription is registered, the printer thread has been
\* started and its stop flag is unset: the thread is started before the
\* first subscription is created and the flag is cleared only after every
\* subscription has been destroyed.
C13_SubscribedImpliesPrinterRunning ==
    (\E sub \in SubscriptionNames : subs[sub] = "active") =>
        /\ tpc \notin { "unstarted", "exited" }
        /\ run_thread
        /\ output_msg_queue.created

\* the printer is about to print while the subscriptions are registered
C13_Witness ==
    /\ tpc = "print"
    /\ subs["send_goal_event_sub"] = "active"
    /\ subs["status_sub"] = "active"
    /\ subs["feedback_sub"] = "active"
    /\ run_thread

\* the label of the stream a subscription listens to
StreamLabel(sub) ==
    CASE sub = "send_goal_event_sub"   -> "GOAL_SERVICE"
      [] sub = "cancel_goal_event_sub" -> "CANCEL_SERVICE"
      [] sub = "get_result_event_sub"  -> "RESULT_SERVICE"
      [] sub = "feedback_sub"          -> "FEEDBACK_TOPIC"
      [] sub = "status_sub"            -> "STATUS_TOPIC"

InCallback == mpc \in { "cb_format", "cb_put", "cb_warn" }

\* r was made from an event that arrived, with the label of its stream
FromItsStream(r) ==
    /\ r.msg \in 1..Len(arrived)
    /\ r.interface = StreamLabel(arrived[r.msg].sub)

LabelsMatch ==
    /\ \A k \in 1..Len(pushed) : FromItsStream(pushed[k])
    /\ \A k \in 1..Len(dropped) : FromItsStream(dropped[k])
    /\ \A k \in 2..Len(pushed) : pushed[k - 1].msg < pushed[k].msg
    /\ \A k \in 2..Len(dropped) : dropped[k - 1].msg < dropped[k].msg
    /\ \A k \in 1..Len(pushed) : \A d \in 1..Len(dropped) : pushed[k].msg # dropped[d].msg
    /\ \A e \in 1..Len(arrived) : subs[arrived[e].sub] # "none"

C16_EveryExitStopsThePrinter ==
    (mpc \in { "raised", "done" } /\ tpc # "unstarted") => ~ run_thread

Stopped == tpc # "unstarted" /\ ~ run_thread

\* the printer is past its last possible write
Spent == Stopped /\ tpc \in { "loop", "exited" }

\* C17: after the stop flag is set the printer writes at most one more
\* record: its first write after the flag leaves it at the loop test, from
\* where it only ends, whatever is still queued.
C17_AtMostOneWriteAfterStop ==
    [][ /\ (Stopped /\ Printed' # Printed) =>
             /\ Len(Printed') = Len(Printed) + 1
             /\ Spent'
        /\ Spent =>
             /\ Spent'
             /\ Printed' = Printed
             /\ output_msg_queue' = output_msg_queue
      ]_vars

\* the printer has ended inside the join window and left two records queued
C17_Witness ==
    /\ tpc = "exited"
    /\ mpc = "join"
    /\ qsize(output_msg_queue) = 2
    /\ Len(Printed) >= 1

\* C11: after an interrupt (or a context found shut down) has ended the spin
\* loop, main always reaches the end of main and the printer thread ends,
\* whatever the queue holds. Counted in waits: once the flag is cleared the
\* printer starts no new get (at most the one in progress, 0.5, completes)
\* and main is in or past its single join(1).
C11_CancellationTerminates ==
    /\ (mpc = "finally") ~> (mpc = "done" /\ tpc = "exited")
    /\ [][ Stopped' =>
             /\ tpc' = "get" => tpc = "get"
             /\ mpc' \in { "join", "done" }
             /\ mpc' = "done" => mpc \in { "join", "stop", "done" }
         ]_vars

\* main is through and the printer has ended with two records still queued
C11_Witness ==
    /\ mpc = "done"
    /\ tpc = "exited"
    /\ failure.kind = "none"
    /\ qsize(output_msg_queue) = 2

\* C14: every callback returns: put stores the record when there is room
\* (also room the printer makes while put waits) or raises queue.Full with
\* the queue still full; with a printer that is never scheduled again main
\* still leaves the callback.
C14_EveryCallbackReturns ==
    /\ InCallback ~> ~ InCallback
    /\ [][ /\ Len(pushed') > Len(pushed) =>
                /\ mpc = "cb_put"
                /\ ~ full(output_msg_queue)
                /\ mpc' = "check_context"
           /\ Len(dropped') > Len(dropped) =>
                /\ mpc = "cb_put"
                /\ full(output_msg_queue)
                /\ output_msg_queue' = output_msg_queue
         ]_vars

\* a put gave up on a full queue the printer never took from, and main is
\* back in the spin loop
C14_Witness ==
    /\ Running
    /\ Len(dropped) = 1
    /\ Taken = 0
    /\ Printed = <<>>
    /\ full(output_msg_queue)

\* C18: while main stays in the spin loop and the printer thread is
\* scheduled, every record put in the queue is eventually printed; a get
\* that raises queue.Empty sends the printer back to the loop test and
\* prints nothing.
C18_PushedIsEventuallyPrinted ==
    /\ \A k \in 1..MaxEvents :
          (Len(pushed) >= k) ~> (Len(Printed) >= k \/ ~ Spinning)
    /\ [][ (tpc = "get" /\ tpc' # "get" /\ qsize(output_msg_queue) = 0) =>
              /\ tpc' = "loop"
              /\ stdout' = stdout
              /\ run_thread' = run_thread
         ]_vars

\* every event delivered has been printed and main is still spinning
C18_Witness ==
    /\ mpc = "spin_once"
    /\ Len(pushed) = MaxEvents
    /\ Len(Printed) = MaxEvents
    /\ tpc = "get"

====
